---- MODULE Spec2Model ----
(***************************************************************************)
(* Model of the MSR605X driver: src/lib/utils.js (bitStream helpers and    *)
(* the MsrDevice class) and the menu handlers of src/index.js.             *)
(*                                                                         *)
(* The module holds several specifications over one set of variables:      *)
(*   SpecChunk  one sendControl() call, every payload length 0..MaxLen     *)
(*   SpecSend   NSends chained sendControl() calls, transfers may fail     *)
(*   SpecBits   bitStream: write, seek back, read on a buffer and cursor   *)
(*   SpecRead   readData's packet framing and track classification         *)
(*   SpecCodec  lrc, encodeISO and the decode loop on a track text         *)
(*   SpecQueue  the packet reader on its own: next, drain, cancel, events  *)
(*   SpecQueueFair  SpecQueue with the reader's timers eventually firing   *)
(*   Spec       the MsrDevice session: connect, the controller calls,      *)
(*              cancel and the endpoint's events                           *)
(*   SpecCli    the same session driven by mainMenu and the menu handlers   *)
(*              of index.js, with ESC calling cancel()                      *)
(* Each specification keeps the variables of the others at their initial   *)
(* values.                                                                 *)
(***************************************************************************)
EXTENDS Integers, Sequences, FiniteSets, TLC

VARIABLES
    \* ---- control-channel writer (MsrDevice.sendControl) ----
    packets,        \* id -> payload (sequence of bytes) handed to sendControl
    nCalls,         \* number of sendControl() calls made so far
    controlChain,   \* this.controlChain: id of the task it settles with, 0 = Promise.resolve()
    sendPred,       \* id -> the controlChain the call chained itself on
    sendStatus,     \* id -> "idle" | "waiting" | "sending" | "fulfilled" | "rejected"
    written,        \* id -> _sendControl's local `written`
    wire,           \* the control transfers submitted, in order: [pkt, buf]
    \* ---- bitStream (utils.js) and the calls made on it ----
    bsRaw,          \* this.raw: the byte buffer
    bsIndex,        \* this._bitIndex: the cursor, in bits
    bsPhase,        \* "idle" | "wrote" | "sought" | "rtdone" | "read"
    bsCt,           \* width of the last write or read
    bsValue,        \* value handed to the last write
    bsResult,       \* what the last read returned (Null for null)
    \* ---- readData's parsing and classification, applied to one input ----
    rdKind,         \* "none" | "packet" | "string": what rdInput is
    rdNull,         \* the packet handed to the parser is null
    rdInput,        \* the received packet (bytes) or the decoded string (characters)
    rdPhase,        \* "idle" | "parsed" | "classified"
    rdResult,       \* the outcome of the call on rdInput
    \* ---- ISO track codec: lrc, encodeISO and readData's decode loop ----
    cdWidth,        \* the code width in bits (`length`)
    cdText,         \* the track text, each character as its alphabet entry
    cdPhase,        \* "idle" | "lrc" | "encoded" | "failed" | "decoded"
    cdLrc,          \* what lrc returned
    cdBytes,        \* the output of encodeISO
    cdSyms,         \* the codes the decode loop read
    \* ---- the packet reader on its own (createPacketReader) ----
    qPromise,       \* the promises next() and drain() returned, in call order
    qArrived,       \* history: the packets completed by the 'data' handler
    qDelivered,     \* history: the packets next() promises resolved with
    \* ---- MsrDevice session and its packet reader ----
    connected,      \* this.connected
    isCancelling,   \* this.isCancelling
    hasReader,      \* this.reader != null
    currentWaiters, \* createPacketReader: waiters, oldest first: [kind, timed]
    incoming,       \* createPacketReader: the backlog of completed packets
    currentData,    \* createPacketReader: the accumulation in progress
    errorState,     \* createPacketReader: "none" | "error" | "disconnected"
    op,             \* the controller call in progress: [name, pc, step, elapsed]
    last,           \* the last call that ended: [name, result]
    ackFresh,       \* history: an ack arrived since writeRawData sent its command
    stage,          \* history: cancel during readData (1), then reset (2), then data (3)
    \* ---- the command-line interface (index.js) ----
    cli             \* mainMenu and the menu handler in progress: [action, pc, tries]

sendVars == <<packets, nCalls, controlChain, sendPred, sendStatus, written, wire>>

bsVars == <<bsRaw, bsIndex, bsPhase, bsCt, bsValue, bsResult>>

rdVars == <<rdKind, rdNull, rdInput, rdPhase, rdResult>>

devVars == <<connected, isCancelling, hasReader, currentWaiters, incoming, currentData,
             errorState, op, last, ackFresh, stage, cli>>

cdVars == <<cdWidth, cdText, cdPhase, cdLrc, cdBytes, cdSyms>>

qVars == <<qPromise, qArrived, qDelivered>>

vars == <<sendVars, bsVars, rdVars, devVars, cdVars, qVars>>

notSend == <<bsVars, rdVars, devVars, cdVars, qVars>>
notBits == <<sendVars, rdVars, devVars, cdVars, qVars>>
notRead == <<sendVars, bsVars, devVars, cdVars, qVars>>
notDev == <<sendVars, bsVars, rdVars, cdVars, qVars>>
notCodec == <<sendVars, bsVars, rdVars, devVars, qVars>>
notQueue == <<sendVars, bsVars, rdVars, cdVars, isCancelling, op, last, ackFresh, stage, cli>>

(***************************************************************************)
(* Bit operations on non-negative integers (JS &, |, on small values).     *)
(***************************************************************************)
RECURSIVE BitAnd(_, _)
BitAnd(a, b) ==
    IF a = 0 \/ b = 0 THEN 0
    ELSE (a % 2) * (b % 2) + 2 * BitAnd(a \div 2, b \div 2)

RECURSIVE BitOr(_, _)
BitOr(a, b) ==
    IF a = 0 THEN b
    ELSE IF b = 0 THEN a
    ELSE (IF a % 2 = 1 \/ b % 2 = 1 THEN 1 ELSE 0) + 2 * BitOr(a \div 2, b \div 2)

RECURSIVE Pow2(_)
Pow2(n) == IF n = 0 THEN 1 ELSE 2 * Pow2(n - 1)

\* a << n and a >>> n on values that stay below 2^31
Shl(a, n) == a * Pow2(n)
Shr(a, n) == a \div Pow2(n)

Min(a, b) == IF a < b THEN a ELSE b
Max(a, b) == IF a > b THEN a ELSE b

\* arr.slice(from, to) with 0-based, end-exclusive indices, clamped as JS does
Slice(s, from, to) ==
    LET f == Min(Max(from, 0), Len(s))
        t == Min(Max(to, 0), Len(s))
    IN  IF t <= f THEN << >> ELSE SubSeq(s, f + 1, t)

RECURSIVE Flatten(_)
Flatten(ss) == IF ss = << >> THEN << >> ELSE Head(ss) \o Flatten(Tail(ss))

(***************************************************************************)
(* The state after construction, per component.                            *)
(***************************************************************************)
SendInitFor(pk) ==
    /\ packets = pk
    /\ nCalls = 0
    /\ controlChain = 0
    /\ sendPred = [i \in DOMAIN pk |-> 0]
    /\ sendStatus = [i \in DOMAIN pk |-> "idle"]
    /\ written = [i \in DOMAIN pk |-> 0]
    /\ wire = << >>

SendIdle == SendInitFor(<< >>)

BsIdle ==
    /\ bsRaw = << >>
    /\ bsIndex = 0
    /\ bsPhase = "idle"
    /\ bsCt = 0
    /\ bsValue = 0
    /\ bsResult = 0

RdIdle ==
    /\ rdKind = "none"
    /\ rdNull = FALSE
    /\ rdInput = << >>
    /\ rdPhase = "idle"
    /\ rdResult = [ok |-> FALSE]

\* no codec call made
CdIdle ==
    /\ cdWidth = 0
    /\ cdText = << >>
    /\ cdPhase = "idle"
    /\ cdLrc = 0
    /\ cdBytes = << >>
    /\ cdSyms = << >>

\* no call made on a stand-alone reader
QIdle ==
    /\ qPromise = << >>
    /\ qArrived = << >>
    /\ qDelivered = << >>

IdleOp ==
    [name |-> "none", pc |-> "none", step |-> 0, elapsed |-> 0, sent |-> FALSE, cmd |-> "none"]

\* mainMenu at the top of its loop, no handler running
CliIdle == [action |-> "none", pc |-> "menu", tries |-> 0]

\* new MsrDevice(): no device, no reader, nothing in progress
DevIdle ==
    /\ cli = CliIdle
    /\ connected = FALSE
    /\ isCancelling = FALSE
    /\ hasReader = FALSE
    /\ currentWaiters = << >>
    /\ incoming = << >>
    /\ currentData = << >>
    /\ errorState = "none"
    /\ op = IdleOp
    /\ last = [name |-> "none", result |-> "none", sent |-> FALSE]
    /\ ackFresh = FALSE
    /\ stage = 0

(***************************************************************************)
(* Bounds of the control-channel specifications.                           *)
(***************************************************************************)
MaxLen == 130
NSends == 2
MaxChunks == 3

(***************************************************************************)
(* Program constants of the chunk protocol.                                *)
(***************************************************************************)
ChunkPayload == 63
StartBit == 128
FinalBit == 64
LenMask == 63
TransferSize == 64

\* a payload of length n for call id (the bytes differ by position and by call)
Payload(id, n) == [i \in 1..n |-> (37 * i + 11 * id) % 256]

\* payload lengths of 0, 1, .., MaxChunks chunks, used when several sends are chained
SendLens == {0} \cup {k * ChunkPayload + 1 : k \in 0..(MaxChunks - 1)}

(***************************************************************************)
(* _sendControl: one iteration of the while loop builds one chunk.         *)
(***************************************************************************)
\* the `if (packet.length - written < 0x3F)` test that marks the last chunk
IsFinalChunk(remaining) == remaining < ChunkPayload

\* mutant: the chunk length is never capped at 0x3F
ChunkLenUncapped(packet, w) == Len(packet) - w

\* let len = 0x3F; if (...) len = packet.length - written
ChunkLen(packet, w) ==
    IF IsFinalChunk(Len(packet) - w) THEN Len(packet) - w ELSE ChunkPayload

\* let header = 0x80; if (...) header |= 0x40; header |= len
ChunkHeader(packet, w) ==
    LET h0 == StartBit
        h1 == IF IsFinalChunk(Len(packet) - w) THEN BitOr(h0, FinalBit) ELSE h0
    IN  BitOr(h1, ChunkLen(packet, w))

\* [header, ...packet.slice(written, written + len)] through Buffer.from
Chunk(packet, w) ==
    LET c == <<ChunkHeader(packet, w)>> \o Slice(packet, w, w + ChunkLen(packet, w))
    IN  [i \in 1..Len(c) |-> c[i] % 256]

\* sendControlChunk: the buffer handed to controlTransfer
SendControlChunk(chunk) ==
    IF Len(chunk) < TransferSize
    THEN [i \in 1..TransferSize |-> IF i <= Len(chunk) THEN chunk[i] ELSE 0]
    ELSE chunk

(***************************************************************************)
(* sendControl: the call chains _sendControl on this.controlChain.         *)
(***************************************************************************)
Settled(id) == sendStatus[id] \in {"fulfilled", "rejected"}

\* mutant: sendControl calls _sendControl directly, without the chain
ChainReadyUnchained(id) == TRUE

\* controlChain = promise.catch(() => {}): it settles when the task settles,
\* whether the task fulfilled or rejected
ChainReady(id) == IF sendPred[id] = 0 THEN TRUE ELSE Settled(sendPred[id])

Ids == DOMAIN packets

SendControl(id) ==
    /\ id \in Ids
    /\ id = nCalls + 1
    /\ sendStatus[id] = "idle"
    /\ nCalls' = nCalls + 1
    /\ sendPred' = [sendPred EXCEPT ![id] = controlChain]
    /\ controlChain' = id
    /\ sendStatus' = [sendStatus EXCEPT ![id] = "waiting"]
    /\ UNCHANGED <<packets, written, wire, notSend>>

\* the body of _sendControl from the loop test to the next await
SendLoop(id, w) ==
    IF w < Len(packets[id])
    THEN /\ wire' = Append(wire, [pkt |-> id, buf |-> SendControlChunk(Chunk(packets[id], w))])
         /\ written' = [written EXCEPT ![id] = w + ChunkLen(packets[id], w)]
         /\ sendStatus' = [sendStatus EXCEPT ![id] = "sending"]
    ELSE /\ sendStatus' = [sendStatus EXCEPT ![id] = "fulfilled"]
         /\ written' = [written EXCEPT ![id] = w]
         /\ UNCHANGED wire

\* the .then callback of the chain runs: _sendControl(packet) starts
StartSend(id) ==
    /\ id \in Ids
    /\ sendStatus[id] = "waiting"
    /\ ChainReady(id)
    /\ SendLoop(id, 0)
    /\ UNCHANGED <<packets, nCalls, controlChain, sendPred, notSend>>

\* controlTransfer's callback with error == null: the await resumes the loop
TransferOk(id) ==
    /\ id \in Ids
    /\ sendStatus[id] = "sending"
    /\ SendLoop(id, written[id])
    /\ UNCHANGED <<packets, nCalls, controlChain, sendPred, notSend>>

\* controlTransfer's callback with an error: sendControlChunk rejects,
\* _sendControl throws out of the loop
TransferErr(id) ==
    /\ id \in Ids
    /\ sendStatus[id] = "sending"
    /\ sendStatus' = [sendStatus EXCEPT ![id] = "rejected"]
    /\ UNCHANGED <<packets, nCalls, controlChain, sendPred, written, wire, notSend>>

SendNext ==
    \/ \E id \in Ids : SendControl(id)
    \/ \E id \in Ids : StartSend(id)
    \/ \E id \in Ids : TransferOk(id)
    \/ \E id \in Ids : TransferErr(id)

InitChunk ==
    /\ \E n \in 0..MaxLen : SendInitFor(<<Payload(1, n)>>)
    /\ BsIdle
    /\ RdIdle
    /\ CdIdle
    /\ QIdle
    /\ DevIdle

NextChunk == SendNext

SpecChunk == InitChunk /\ [][NextChunk]_vars

InitSend ==
    /\ \E ls \in [1..NSends -> SendLens] : SendInitFor([i \in 1..NSends |-> Payload(i, ls[i])])
    /\ BsIdle
    /\ RdIdle
    /\ CdIdle
    /\ QIdle
    /\ DevIdle

NextSend == SendNext

SpecSend == InitSend /\ [][NextSend]_vars

(***************************************************************************)
(* createPacketReader, the 'data' handler: what one report does to the     *)
(* accumulation.  kind is "invalid" (report dropped), "continue" or        *)
(* "packet" (the accumulation completed as `packet`).                      *)
(***************************************************************************)
OnDataResult(data, cur) ==
    LET head == data[1]
    IN  IF BitAnd(head, StartBit) # StartBit /\ Len(cur) = 0
        THEN [kind |-> "invalid", cur |-> cur, packet |-> << >>]
        ELSE LET length == BitAnd(head, LenMask)
                 cur2 == cur \o Slice(data, 1, length + 1)
             IN  IF BitAnd(head, FinalBit) # FinalBit
                 THEN [kind |-> "continue", cur |-> cur2, packet |-> << >>]
                 ELSE [kind |-> "packet", cur |-> << >>, packet |-> cur2]

\* the packets a receiver applying the handler's rule recovers from `reports`
RECURSIVE Reassemble(_, _)
Reassemble(reports, cur) ==
    IF reports = << >> THEN << >>
    ELSE LET r == OnDataResult(Head(reports), cur)
         IN  (IF r.kind = "packet" THEN <<r.packet>> ELSE << >>)
                 \o Reassemble(Tail(reports), r.cur)

(***************************************************************************)
(* Claims about the control-channel writer.                                *)
(***************************************************************************)
RECURSIVE SelectPkt(_, _)
SelectPkt(w, id) ==
    IF w = << >> THEN << >>
    ELSE (IF Head(w).pkt = id THEN <<Head(w).buf>> ELSE << >>) \o SelectPkt(Tail(w), id)

\* the transfers of call id, in send order
ChunksOf(id) == SelectPkt(wire, id)

HeaderLen(buf) == BitAnd(buf[1], LenMask)
HasStart(buf) == BitAnd(buf[1], StartBit) = StartBit
HasFinal(buf) == BitAnd(buf[1], FinalBit) = FinalBit
PayloadOf(buf) == SubSeq(buf, 2, HeaderLen(buf) + 1)

CeilDiv(a, b) == (a + b - 1) \div b

\* C1: sends are totally ordered. A later sendControl() call has no chunk
\* on the wire, and has not started, before every earlier call has
\* fulfilled or rejected; the chunks of two calls never interleave on the
\* wire; and a call chained on a call that rejected can start.
C1_Serialized ==
    /\ \A a \in Ids : \A b \in Ids :
          (a < b /\ sendStatus[b] \in {"sending", "fulfilled", "rejected"}) => Settled(a)
    /\ \A i \in 1..Len(wire) : \A j \in 1..Len(wire) :
          i < j => wire[i].pkt <= wire[j].pkt
    /\ \A b \in Ids :
          (sendStatus[b] = "waiting" /\ sendPred[b] # 0 /\ sendStatus[sendPred[b]] = "rejected")
              => ENABLED StartSend(b)

\* a first call of several chunks rejected, and the second call was then
\* transferred whole, in several chunks
C1_Witness ==
    /\ 2 \in Ids
    /\ sendStatus[1] = "rejected"
    /\ Len(ChunksOf(1)) >= 1
    /\ Len(packets[1]) > ChunkPayload
    /\ sendStatus[2] = "fulfilled"
    /\ Len(ChunksOf(2)) >= 2

\* C2: a payload of length L is sent as ceil(L/63) transfers of exactly 64
\* bytes; each has its start bit set, carries at most 63 payload bytes,
\* as many as its length field says, and zeros after them; the payloads in
\* send order concatenate to the bytes sent so far, the whole payload once
\* the call has fulfilled.
C2_Chunking ==
    \A id \in Ids :
        LET cs == ChunksOf(id)
            L == Len(packets[id])
        IN  /\ \A i \in 1..Len(cs) :
                  /\ Len(cs[i]) = TransferSize
                  /\ HasStart(cs[i])
                  /\ HeaderLen(cs[i]) <= ChunkPayload
                  /\ HeaderLen(cs[i]) = Min(ChunkPayload, L - (i - 1) * ChunkPayload)
                  /\ \A k \in (HeaderLen(cs[i]) + 2)..TransferSize : cs[i][k] = 0
            /\ Flatten([i \in 1..Len(cs) |-> PayloadOf(cs[i])]) = SubSeq(packets[id], 1, written[id])
            /\ sendStatus[id] = "fulfilled" =>
                  /\ Len(cs) = CeilDiv(L, ChunkPayload)
                  /\ written[id] = L

\* a payload of three chunks was sent whole
C2_Witness ==
    \E id \in Ids :
        /\ sendStatus[id] = "fulfilled"
        /\ Len(packets[id]) > 2 * ChunkPayload
        /\ Len(ChunksOf(id)) = 3

\* C3: once a payload of length L >= 1 has been sent, the final bit is set
\* on its last chunk and on no earlier one, and the reassembly rule
\* recovers exactly one packet, equal to the payload.
C3_FinalBitOnLast ==
    \A id \in Ids :
        (sendStatus[id] = "fulfilled" /\ Len(packets[id]) >= 1) =>
            LET cs == ChunksOf(id)
            IN  /\ \A i \in 1..Len(cs) : HasFinal(cs[i]) <=> (i = Len(cs))
                /\ Reassemble(cs, << >>) = <<packets[id]>>

(***************************************************************************)
(* bitStream: read, write and seek on a byte buffer with a bit cursor.     *)
(***************************************************************************)
MaxBytes == 2

\* read's `return null`
Null == -1

\* raw[i] as the bit operators see it: undefined counts as 0
GetByte(raw, i) == IF i >= 0 /\ i < Len(raw) THEN raw[i + 1] ELSE 0

\* raw[i] = b: an index past the end grows the array
SetByte(raw, i, b) ==
    [k \in 1..Max(Len(raw), i + 1) |-> IF k = i + 1 THEN b ELSE GetByte(raw, k - 1)]

\* ~x & 0xFF
Not8(x) == 255 - (x % 256)

\* the mask loops: bits 7-from down to 7-(to-1) of a byte
RECURSIVE MaskBits(_, _)
MaskBits(from, to) ==
    IF from >= to THEN 0 ELSE BitOr(Shl(1, 7 - from), MaskBits(from + 1, to))

\* write's bitMask: the low ct bits
RECURSIVE LowMask(_)
LowMask(ct) == IF ct = 0 THEN 0 ELSE BitOr(Shl(1, ct - 1), LowMask(ct - 1))

\* const rsh = (a1, a2) => a2 >= 0 ? a1 >>> a2 : a1 << -a2
Rsh(a1, a2) == IF a2 >= 0 THEN Shr(a1, a2) ELSE Shl(a1, 0 - a2)

\* Math.floor(a / 8) and the JS remainder a % 8 (sign of the dividend)
FloorDiv8(a) == IF a >= 0 THEN a \div 8 ELSE 0 - ((0 - a + 7) \div 8)
JsRem8(a) == IF a >= 0 THEN a % 8 ELSE 0 - ((0 - a) % 8)
CeilDiv8(a) == (a + 7) \div 8

\* read's end-of-stream test
ReadAtEnd(idx, ct, raw) == idx + ct >= Len(raw) * 8

\* the loop over bytes[1 .. length-2]: value <<= 8; value |= bytes[i]
RECURSIVE ReadMiddle(_, _, _)
ReadMiddle(bytes, i, value) ==
    IF i >= Len(bytes) - 1 THEN value
    ELSE ReadMiddle(bytes, i + 1, BitOr(Shl(value, 8), bytes[i + 1]))

\* read(ct): [res, idx], res = Null at end of stream
BsReadResult(raw, idx, ct) ==
    IF ReadAtEnd(idx, ct, raw) THEN [res |-> Null, idx |-> idx]
    ELSE LET baseIndex == idx \div 8
             bytes == Slice(raw, baseIndex, CeilDiv8(idx + ct))
             bitOffset == idx % 8
             bitMask == MaskBits(bitOffset, Min(bitOffset + ct, 8))
             v0 == Shr(BitAnd(bytes[1], bitMask), Max(0, (8 - ct) - bitOffset))
             v1 == ReadMiddle(bytes, 1, v0)
             remainingBits == ct - (8 - (idx % 8)) - Max(0, Len(bytes) - 2) * 8
             v2 == IF Len(bytes) > 1
                   THEN BitOr(Shl(v1, remainingBits),
                              Shr(BitAnd(bytes[Len(bytes)], MaskBits(0, remainingBits)),
                                  8 - remainingBits))
                   ELSE v1
         IN  [res |-> v2, idx |-> idx + ct]

\* the loop `for (i = byteOffset + octetCount; i >= byteOffset + 1; --i)`
RECURSIVE WriteMiddle(_, _, _, _, _, _)
WriteMiddle(raw, i, byteOffset, octetCount, toWrite, modifiedBitOffset) ==
    IF i < byteOffset + 1 THEN raw
    ELSE WriteMiddle(
            SetByte(raw, i,
                Rsh(toWrite, modifiedBitOffset + 8 * (i - byteOffset - octetCount)) % 256),
            i - 1, byteOffset, octetCount, toWrite, modifiedBitOffset)

\* mutant: the first byte is not cleared before the new bits are OR-ed in
WriteClearNone(bitMask, d) == 255

\* `~rsh(bitMask, (ct - (8 - bitOffset))) & 0xFF`, what `// clear` keeps of the first byte
WriteClear(bitMask, d) == Not8(Rsh(bitMask, d))

\* write(ct, value): [raw, idx]
BsWriteResult(raw, idx, ct, value) ==
    LET bitMask == LowMask(ct)
        toWrite == BitAnd(value, bitMask)
        bitOffset == idx % 8
        byteOffset == idx \div 8
        d == ct - (8 - bitOffset)
        b0 == BitAnd(GetByte(raw, byteOffset), WriteClear(bitMask, d))
        b1 == BitOr(b0, Rsh(toWrite, d) % 256)
        raw1 == SetByte(raw, byteOffset, b1)
        octetCount == FloorDiv8(d)
        modifiedBitOffset == JsRem8(d)
        raw2 == WriteMiddle(raw1, byteOffset + octetCount, byteOffset, octetCount,
                            toWrite, modifiedBitOffset)
        lastByte == byteOffset + octetCount + 1
        raw3 == IF modifiedBitOffset > 0
                THEN LET c0 == BitAnd(GetByte(raw2, lastByte),
                                      Not8(Shl(bitMask, 8 - modifiedBitOffset)))
                         c1 == BitOr(c0, Shl(toWrite, 8 - modifiedBitOffset) % 256)
                     IN  SetByte(raw2, lastByte, c1)
                ELSE raw2
    IN  [raw |-> raw3, idx |-> idx + ct]

\* seek(ct): the cursor clamped to [0, raw.length * 8]
BsSeekResult(raw, idx, ct) ==
    LET i == idx + ct
    IN  IF i < 0 THEN 0 ELSE IF i > Len(raw) * 8 THEN Len(raw) * 8 ELSE i

\* inputs: widths, values (some wider than the width) and buffers
BsWidths == 1..8
BsValues == {0, 165, 90, 255, 511} \cup {Pow2(k) : k \in 0..8}
BsPattern(n, kind) ==
    [i \in 1..n |-> IF kind = 0 THEN 0 ELSE IF kind = 1 THEN 255
                     ELSE IF i % 2 = 1 THEN 165 ELSE 60]
BsBuffers == {BsPattern(n, kind) : n \in 0..MaxBytes, kind \in 0..2}

\* bitStream(data), and the cursor moved to any position by seek
InitBits ==
    /\ bsRaw \in BsBuffers
    /\ bsIndex \in 0..(Len(bsRaw) * 8)
    /\ bsPhase = "idle"
    /\ bsCt = 0
    /\ bsValue = 0
    /\ bsResult = 0
    /\ SendIdle
    /\ RdIdle
    /\ CdIdle
    /\ QIdle
    /\ DevIdle

BsWrite(ct, v) ==
    /\ bsPhase = "idle"
    /\ LET r == BsWriteResult(bsRaw, bsIndex, ct, v)
       IN  /\ bsRaw' = r.raw
           /\ bsIndex' = r.idx
    /\ bsCt' = ct
    /\ bsValue' = v
    /\ bsPhase' = "wrote"
    /\ UNCHANGED <<bsResult, notBits>>

\* seek(-w) right after write(w, v)
BsSeekBack ==
    /\ bsPhase = "wrote"
    /\ bsIndex' = BsSeekResult(bsRaw, bsIndex, 0 - bsCt)
    /\ bsPhase' = "sought"
    /\ UNCHANGED <<bsRaw, bsCt, bsValue, bsResult, notBits>>

\* read(w) right after write(w, v); seek(-w)
BsReadBack ==
    /\ bsPhase = "sought"
    /\ LET r == BsReadResult(bsRaw, bsIndex, bsCt)
       IN  /\ bsResult' = r.res
           /\ bsIndex' = r.idx
    /\ bsPhase' = "rtdone"
    /\ UNCHANGED <<bsRaw, bsCt, bsValue, notBits>>

\* read(ct) on the buffer as constructed, at any cursor
BsRead(ct) ==
    /\ bsPhase = "idle"
    /\ LET r == BsReadResult(bsRaw, bsIndex, ct)
       IN  /\ bsResult' = r.res
           /\ bsIndex' = r.idx
    /\ bsCt' = ct
    /\ bsPhase' = "read"
    /\ UNCHANGED <<bsRaw, bsValue, notBits>>

NextBits ==
    \/ \E ct \in BsWidths : \E v \in BsValues : BsWrite(ct, v)
    \/ BsSeekBack
    \/ BsReadBack
    \/ \E ct \in BsWidths : BsRead(ct)

SpecBits == InitBits /\ [][NextBits]_vars

\* bit p of the buffer, bit 0 being the most significant bit of raw[0]
BitAt(raw, p) == (GetByte(raw, p \div 8) \div Pow2(7 - (p % 8))) % 2

\* the bits [p, p + n) of the buffer as a number, most significant bit first
RECURSIVE BitsFrom(_, _, _)
BitsFrom(raw, p, n) ==
    IF n = 0 THEN 0 ELSE 2 * BitsFrom(raw, p, n - 1) + BitAt(raw, p + n - 1)

\* C10: write(w, v), seek(-w), read(w) returns v & mask(w), never
\* end-of-stream, for every width 1..8, value and starting cursor.
C10_RoundTrip ==
    bsPhase = "rtdone" => bsResult = BitAnd(bsValue, LowMask(bsCt))

\* C24: read(w) returns end-of-stream, with the cursor unchanged, exactly
\* when cursor + w is strictly greater than the bit length of the buffer;
\* otherwise it returns the w bits at the cursor, most significant bit first,
\* and advances the cursor by w.
C24_ReadBits ==
    [][ \A ct \in BsWidths :
          BsRead(ct)
            => IF bsIndex + ct > Len(bsRaw) * 8
               THEN bsResult' = Null /\ bsIndex' = bsIndex
               ELSE bsResult' = BitsFrom(bsRaw, bsIndex, ct) /\ bsIndex' = bsIndex + ct ]_vars

\* C25: write(w, v) at any cursor sets the bits [cursor, cursor + w) to the
\* low w bits of v, most significant bit first, keeps every other bit of the
\* bytes the buffer already had, grows the buffer to hold the range, and
\* advances the cursor by w.
C25_WriteBits ==
    [][ BsWrite(bsCt', bsValue')
          => /\ bsIndex' = bsIndex + bsCt'
             /\ Len(bsRaw') = Max(Len(bsRaw), CeilDiv8(bsIndex + bsCt'))
             /\ \A k \in 1..Len(bsRaw') : bsRaw'[k] \in 0..255
             /\ BitsFrom(bsRaw', bsIndex, bsCt') = bsValue' % Pow2(bsCt')
             /\ \A p \in 0..(Len(bsRaw) * 8 - 1) :
                  (p < bsIndex \/ p >= bsIndex + bsCt')
                    => BitAt(bsRaw', p) = BitAt(bsRaw, p) ]_vars

\* write(7, 0xA5) at cursor 5 of the one-byte buffer <<0xFF>>: the range
\* straddles the byte boundary and the buffer grew by one byte
C25_Witness ==
    /\ bsPhase = "wrote" /\ bsCt = 7 /\ bsValue = 165 /\ bsIndex = 12
    /\ bsRaw = <<250, 80>>

(***************************************************************************)
(* readData: the framing of the track-data packet (lines 438-452) and the  *)
(* classification of each decoded track (lines 470-481).                   *)
(***************************************************************************)
MaxTrack == 1
MaxStr == 4

Marker == 27
TrackDataCode == 115
NumTracks == 3

\* an index past the end reads undefined; an index that is NaN too
Undefined == -2
NaN == -3

ByteAt(received, i) ==
    IF i = NaN \/ i < 0 \/ i >= Len(received) THEN Undefined ELSE received[i + 1]

\* the body of `for (let i = 1; i <= 3; ++i)`, from track i on:
\* [ok, trackData] with the tracks pushed so far in acc
RECURSIVE ParseTracks(_, _, _, _)
ParseTracks(received, rIndex, i, acc) ==
    IF i > NumTracks THEN [ok |-> TRUE, trackData |-> acc]
    ELSE IF ByteAt(received, rIndex) # Marker
            \/ ByteAt(received, IF rIndex = NaN THEN NaN ELSE rIndex + 1) # i
         THEN [ok |-> FALSE, trackData |-> << >>]
         ELSE LET r2 == rIndex + 2
                  trackLength == ByteAt(received, r2)
                  r3 == r2 + 1
                  \* slice(rIndex, rIndex + undefined) is slice(rIndex, NaN): empty
                  track == IF trackLength = Undefined THEN << >>
                           ELSE Slice(received, r3, r3 + trackLength)
                  r4 == IF trackLength = Undefined THEN NaN ELSE r3 + trackLength
              IN  ParseTracks(received, r4, i + 1, Append(acc, track))

\* readData from the packet it received to the tracks' raw bytes:
\* err is "malformed response from device" when the call throws
ReadDataParse(isNull, received) ==
    IF isNull \/ ByteAt(received, 0) # Marker \/ ByteAt(received, 1) # TrackDataCode
    THEN [ok |-> FALSE, err |-> "malformed", trackData |-> << >>]
    ELSE LET r == ParseTracks(received, 2, 1, << >>)
         IN  [ok |-> r.ok, err |-> IF r.ok THEN "none" ELSE "malformed",
              trackData |-> r.trackData]

\* str.indexOf(c): 0-based, -1 when absent
RECURSIVE IndexFrom(_, _, _)
IndexFrom(str, c, i) ==
    IF i >= Len(str) THEN -1
    ELSE IF str[i + 1] = c THEN i ELSE IndexFrom(str, c, i + 1)

IndexOf(str, c) == IndexFrom(str, c, 0)

Includes(str, c) == IndexOf(str, c) >= 0

\* the body of `for (let i = 0; i < isoTracks.length; ++i)` for one track
Classify(str) ==
    LET endIndex == IndexOf(str, "?")
        startIndex == IndexOf(str, ";")
    IN  IF startIndex < 0 \/ endIndex < 0
        THEN [label |-> IF Len(str) > 0 THEN "Corrupt Data" ELSE "No Data", text |-> << >>]
        ELSE LET sub == Slice(str, startIndex, endIndex + 1)
             IN  IF Includes(sub, "~")
                 THEN [label |-> "Corrupt Data", text |-> << >>]
                 ELSE [label |-> "Track", text |-> sub]

\* ---- inputs ----
TrackBytes(t, n) == [k \in 1..n |-> 64 + 16 * t + k]

WellFormedPacket(n1, n2, n3) ==
    <<Marker, TrackDataCode>>
        \o <<Marker, 1, n1>> \o TrackBytes(1, n1)
        \o <<Marker, 2, n2>> \o TrackBytes(2, n2)
        \o <<Marker, 3, n3>> \o TrackBytes(3, n3)

\* p with the byte at position k (1-based) replaced by b; k = 0 leaves p as it is
Replaced(p, k, b) == [j \in 1..Len(p) |-> IF j = k THEN b ELSE p[j]]

\* well-formed packets, their prefixes, and each with one byte replaced or
\* one byte appended
RdPackets ==
    LET bases == {WellFormedPacket(n1, n2, n3) : n1 \in 0..MaxTrack, n2 \in 0..MaxTrack, n3 \in 0..MaxTrack}
        cuts == UNION {{SubSeq(p, 1, k) : k \in 0..Len(p)} : p \in bases}
        subst == UNION {UNION {{Replaced(p, k, 0), Replaced(p, k, p[k] + 1)} : k \in 1..Len(p)} :
                            p \in cuts \ {<< >>}}
        more == {Append(p, 0) : p \in bases}
    IN  cuts \cup subst \cup more

RdChars == {";", "?", "~", "1"}
RdStrings == UNION {[1..n -> RdChars] : n \in 0..MaxStr}

InitRead ==
    /\ \/ rdKind = "packet" /\ rdNull = FALSE /\ rdInput \in RdPackets
       \/ rdKind = "packet" /\ rdNull = TRUE /\ rdInput = << >>
       \/ rdKind = "string" /\ rdNull = FALSE /\ rdInput \in RdStrings
    /\ rdPhase = "idle"
    /\ rdResult = [ok |-> FALSE]
    /\ SendIdle
    /\ BsIdle
    /\ DevIdle
    /\ CdIdle
    /\ QIdle

\* readData on the packet the reader delivered, up to the tracks' raw bytes
RdParse ==
    /\ rdKind = "packet"
    /\ rdPhase = "idle"
    /\ rdResult' = ReadDataParse(rdNull, rdInput)
    /\ rdPhase' = "parsed"
    /\ UNCHANGED <<rdKind, rdNull, rdInput, notRead>>

\* readData's classification of one decoded track
RdClassify ==
    /\ rdKind = "string"
    /\ rdPhase = "idle"
    /\ rdResult' = Classify(rdInput)
    /\ rdPhase' = "classified"
    /\ UNCHANGED <<rdKind, rdNull, rdInput, notRead>>

NextRead ==
    \/ RdParse
    \/ RdClassify

SpecRead == InitRead /\ [][NextRead]_vars

\* the framing the packet must have: marker, 0x73, then for i = 1, 2, 3 a
\* marker, the index i, a length n and n bytes present in the packet
RECURSIVE TrackFramed(_, _, _)
TrackFramed(p, pos, i) ==
    /\ pos + 3 <= Len(p)
    /\ p[pos + 1] = Marker
    /\ p[pos + 2] = i
    /\ pos + 3 + p[pos + 3] <= Len(p)
    /\ (i < NumTracks => TrackFramed(p, pos + 3 + p[pos + 3], i + 1))

Framed(isNull, p) ==
    /\ ~isNull
    /\ Len(p) >= 2
    /\ p[1] = Marker
    /\ p[2] = TrackDataCode
    /\ TrackFramed(p, 2, 1)

\* C8: readData accepts a packet only if it is framed as marker, 0x73 and
\* three tracks (marker, index, length, that many bytes present); every
\* other packet fails the call with a protocol error and yields no tracks.
C8_Framing ==
    rdPhase = "parsed" =>
        /\ rdResult.ok <=> Framed(rdNull, rdInput)
        /\ ~rdResult.ok => (rdResult.err = "malformed" /\ rdResult.trackData = << >>)

\* C9: a decoded string without ';' or without '?' is "No Data" when empty
\* and "Corrupt Data" otherwise; with both, the result is the substring
\* that starts at the start sentinel and ends at the end sentinel, or
\* "Corrupt Data" when that substring holds a '~'.
C9_Classification ==
    rdPhase = "classified" =>
        LET str == rdInput
            res == rdResult
        IN  IF ~Includes(str, ";") \/ ~Includes(str, "?")
            THEN res.label = (IF Len(str) = 0 THEN "No Data" ELSE "Corrupt Data")
            ELSE \/ res.label = "Corrupt Data"
                    /\ \E a \in 1..Len(str) : \E b \in a..Len(str) :
                          /\ str[a] = ";" /\ str[b] = "?"
                          /\ Includes(SubSeq(str, a, b), "~")
                 \/ /\ res.label = "Track"
                    /\ Len(res.text) >= 2
                    /\ Head(res.text) = ";"
                    /\ res.text[Len(res.text)] = "?"
                    /\ ~Includes(res.text, "~")
                    /\ \E a \in 1..Len(str) : \E b \in a..Len(str) :
                          res.text = SubSeq(str, a, b)

(***************************************************************************)
(* ISO track codec: lrc (utils.js), MsrDevice.encodeISO and the decode     *)
(* loop of readData.  A character of the text is represented by what the   *)
(* alphabet table holds for it: a code, or Unmapped when the table has no  *)
(* entry.  The decode loop is followed up to the codes it reads.           *)
(***************************************************************************)
MaxShort == 3
MaxText == 7

\* alphabet[c] is undefined
Unmapped == -4

\* `bin & (1 << i)` with bin undefined is 0
CodeBits(c) == IF c = Unmapped THEN 0 ELSE c

BitSet(x, i) == (x \div Pow2(i)) % 2 = 1

\* bits[i] after the loop over data: how many codes have bit i set
RECURSIVE LrcCount(_, _)
LrcCount(codes, i) ==
    IF codes = << >> THEN 0
    ELSE (IF BitSet(CodeBits(Head(codes)), i) THEN 1 ELSE 0) + LrcCount(Tail(codes), i)

\* mutant: a column is true as soon as one code has the bit
LrcColumnAny(codes, i) == LrcCount(codes, i) >= 1

\* bits.map(x => x % 2 == 1)
LrcColumn(codes, i) == LrcCount(codes, i) % 2 = 1

RECURSIVE PackBits(_, _)
PackBits(bits, i) ==
    IF i >= Len(bits) THEN 0
    ELSE (IF bits[i + 1] THEN Pow2(i) ELSE 0) + PackBits(bits, i + 1)

\* lrc(len, alphabet, data); bits[0] = ... makes the array at least one long
Lrc(len, codes) ==
    LET bits == [k \in 1..len |-> LrcColumn(codes, k - 1)]
        bit0 == Cardinality({k \in 2..len : bits[k]}) % 2 = 0
        final == [k \in 1..Max(len, 1) |-> IF k = 1 THEN bit0 ELSE bits[k]]
    IN  PackBits(final, 0)

\* `map[c] || c` stays a string, and throws, when map[c] is undefined or 0
IsInvalidChar(c) == c = Unmapped \/ c = 0

\* the forEach of outStream.write(length, c)
RECURSIVE WriteAll(_, _, _)
WriteAll(st, width, codes) ==
    IF codes = << >> THEN st
    ELSE WriteAll(BsWriteResult(st.raw, st.idx, width, Head(codes)), width, Tail(codes))

\* encodeISO(map, length, track): [ok, output]
EncodeISO(width, codes) ==
    IF \E k \in 1..Len(codes) : IsInvalidChar(codes[k])
    THEN [ok |-> FALSE, output |-> << >>]
    ELSE LET st == WriteAll([raw |-> << >>, idx |-> 0], width, codes)
             st2 == IF Len(codes) > 0
                    THEN BsWriteResult(st.raw, st.idx, width, Lrc(width, codes))
                    ELSE st
         IN  [ok |-> TRUE, output |-> st2.raw]

\* while ((temp = stream.read(width)) != null) push
RECURSIVE DecodeLoop(_, _, _)
DecodeLoop(raw, idx, width) ==
    LET r == BsReadResult(raw, idx, width)
    IN  IF r.res = Null THEN << >> ELSE <<r.res>> \o DecodeLoop(raw, r.idx, width)

\* the widths the handlers use: 7 bits for track 1, 5 bits for tracks 2 and 3
CdWidths == {5, 7}

\* short texts over table entries of every kind, longer texts over two codes
CdEntries(w) == {Unmapped, 0, 1, 2, Pow2(w - 1), Pow2(w) - 1}
CdTexts(w) ==
    UNION {[1..n -> CdEntries(w)] : n \in 0..MaxShort}
        \cup UNION {[1..n -> {6, Pow2(w - 1) + 1}] : n \in (MaxShort + 1)..MaxText}

InitCodec ==
    /\ cdWidth \in CdWidths
    /\ cdText \in CdTexts(cdWidth)
    /\ cdPhase = "idle"
    /\ cdLrc = 0
    /\ cdBytes = << >>
    /\ cdSyms = << >>
    /\ SendIdle
    /\ BsIdle
    /\ RdIdle
    /\ DevIdle
    /\ QIdle

CdLrc ==
    /\ cdPhase = "idle"
    /\ cdLrc' = Lrc(cdWidth, cdText)
    /\ cdPhase' = "lrc"
    /\ UNCHANGED <<cdWidth, cdText, cdBytes, cdSyms, notCodec>>

CdEncode ==
    /\ cdPhase = "lrc"
    /\ LET e == EncodeISO(cdWidth, cdText)
       IN  /\ cdPhase' = IF e.ok THEN "encoded" ELSE "failed"
           /\ cdBytes' = e.output
    /\ UNCHANGED <<cdWidth, cdText, cdLrc, cdSyms, notCodec>>

CdDecode ==
    /\ cdPhase = "encoded"
    /\ cdSyms' = DecodeLoop(cdBytes, 0, cdWidth)
    /\ cdPhase' = "decoded"
    /\ UNCHANGED <<cdWidth, cdText, cdLrc, cdBytes, notCodec>>

NextCodec ==
    \/ CdLrc
    \/ CdEncode
    \/ CdDecode

SpecCodec == InitCodec /\ [][NextCodec]_vars

(***************************************************************************)
(* Claims about the codec.                                                 *)
(***************************************************************************)
BitXor(a, b) == a + b - 2 * BitAnd(a, b)

RECURSIVE XorAll(_)
XorAll(codes) ==
    IF codes = << >> THEN 0 ELSE BitXor(CodeBits(Head(codes)), XorAll(Tail(codes)))

\* the number of set bits of x among bits 1..w-1
HighOnes(x, w) == Cardinality({i \in 1..(w - 1) : BitSet(x, i)})

LrcColumnsXor ==
    \A i \in 1..(cdWidth - 1) : BitSet(cdLrc, i) <=> BitSet(XorAll(cdText), i)

\* C11 as stated: bits 1..w-1 of the LRC are the XOR parity of the data
\* codes, and the number of set bits among bits 1..w-1 of the LRC is even.
C11_LrcEvenColumns ==
    cdPhase = "lrc" => (LrcColumnsXor /\ HighOnes(cdLrc, cdWidth) % 2 = 0)

\* C11 amended: bits 1..w-1 of the LRC are the XOR parity of the data codes,
\* bit 0 is set exactly when the number of set bits among bits 1..w-1 is
\* even, and no bit from w upwards is set.
C11_LrcParity ==
    cdPhase = "lrc"
        => /\ LrcColumnsXor
           /\ BitSet(cdLrc, 0) <=> (HighOnes(cdLrc, cdWidth) % 2 = 0)
           /\ cdLrc < Pow2(cdWidth)

\* lrc ran on three codes and its bits 1..w-1 hold an odd number of ones
C11_Witness ==
    cdPhase = "lrc" /\ Len(cdText) = 3 /\ HighOnes(cdLrc, cdWidth) % 2 = 1

\* bit p of the byte sequence, most significant bit of a byte first
BitOf(raw, p) == IF BitSet(GetByte(raw, p \div 8), 7 - (p % 8)) THEN 1 ELSE 0

\* the w bits that start at bit p, as a number
RECURSIVE BitsAt(_, _, _)
BitsAt(raw, p, w) ==
    IF w = 0 THEN 0 ELSE BitOf(raw, p) * Pow2(w - 1) + BitsAt(raw, p + 1, w - 1)

\* the codes encodeISO has to write for the text: one per character, then the LRC
Expected(codes, w) ==
    IF codes = << >> THEN << >>
    ELSE [k \in 1..Len(codes) |-> codes[k] % Pow2(w)] \o <<Lrc(w, codes)>>

\* raw holds exactly the codes cs, w bits each, packed from bit 0 on
Holds(raw, cs, w) ==
    /\ Len(raw) = CeilDiv8(Len(cs) * w)
    /\ \A k \in 1..Len(cs) : BitsAt(raw, (k - 1) * w, w) = cs[k]

\* C12: encodeISO fails exactly when the text has a character the alphabet
\* does not map; otherwise it writes one width-bit code per character, in
\* order, then one LRC code when the text is non-empty and nothing when empty.
C12_EncodeTotalOnMapped ==
    cdPhase \in {"encoded", "failed"}
        => /\ cdPhase = "failed" <=> (\E k \in 1..Len(cdText) : cdText[k] = Unmapped)
           /\ cdPhase = "encoded" => Holds(cdBytes, Expected(cdText, cdWidth), cdWidth)

\* C13: decoding the bytes encodeISO produced for a non-empty text of n
\* characters yields the n codes of the text, in order, and then the LRC code.
C13_CodecRoundTrip ==
    (cdPhase = "decoded" /\ cdText # << >>)
        => /\ Len(cdSyms) >= Len(cdText) + 1
           /\ SubSeq(cdSyms, 1, Len(cdText) + 1) = Expected(cdText, cdWidth)

(***************************************************************************)
(* MsrDevice: the session, its packet reader and the controller calls.     *)
(*                                                                         *)
(* One controller call is in progress at a time (op); cancel() and the     *)
(* endpoint's events may happen at any moment.  A step of the model is one *)
(* event-loop task together with the promise continuations it triggers:    *)
(* settling a waiter and resuming the call that awaits it are one step.    *)
(* The device state is handled as a record D with one field per variable.  *)
(***************************************************************************)
MaxBacklog == 1
MaxAccum == 1

AckCode == 48
PollDeadlineMs == 3000
SubWaitMs == 500
InitSteps == 8

\* the number of 500 ms sub-waits that make up the 3 s deadline
SubWaits == PollDeadlineMs \div SubWaitMs

Dev ==
    [connected |-> connected, isCancelling |-> isCancelling, hasReader |-> hasReader,
     waiters |-> currentWaiters, incoming |-> incoming, cur |-> currentData,
     errorState |-> errorState, op |-> op, last |-> last,
     ackFresh |-> ackFresh, stage |-> stage]

\* ---- packets and reports of the device ----
AckPkt == <<Marker, AckCode>>
RetPkt == <<Marker, 49, 1>>
TrackPkt == WellFormedPacket(0, 0, 0)

\* a report: the header byte, then the payload
Report(start, final, payload) ==
    <<BitOr(BitOr(IF start THEN StartBit ELSE 0, IF final THEN FinalBit ELSE 0), Len(payload))>>
        \o payload

\* an ack and a return value in one report each; track data in two, the
\* second without the start bit
ContPayload == SubSeq(TrackPkt, 1, 2)

DevReports ==
    { Report(TRUE, TRUE, AckPkt),
      Report(TRUE, TRUE, RetPkt),
      Report(TRUE, FALSE, ContPayload),
      Report(FALSE, TRUE, SubSeq(TrackPkt, 3, Len(TrackPkt))) }

IsAck(received) == Len(received) >= 2 /\ received[1] = Marker /\ received[2] = AckCode

\* readReturn: a 2-byte marker packet is skipped, marker + code other than 0x30 is returned
IsReturn(received) ==
    /\ ~(Len(received) = 2 /\ received[1] = Marker)
    /\ Len(received) >= 2 /\ received[1] = Marker /\ received[2] # AckCode

\* ---- the end of a call ----
\* stage 3 once a readData that follows the cancelled one and reset() returns data
Finish(D, res) ==
    [D EXCEPT !.last = [name |-> D.op.name, result |-> res, sent |-> D.op.sent],
              !.op = IdleOp,
              !.stage = IF D.stage = 2 /\ D.op.name = "readData"
                        THEN (IF res = "data" THEN 3 ELSE 0) ELSE @]

\* a thrown error unwinds the call: no caller inside MsrDevice catches it
Throw(D, e) == Finish(D, e)

\* await this.sendControl(...): the call is suspended until the transfer ends
Send(D, cmd, pc) == [D EXCEPT !.op.pc = pc, !.op.cmd = cmd, !.op.sent = TRUE]

\* ---- initializeDevice ----
InitCmd(k) ==
    <<"getFirmwareVersion", "disableRead", "setBPC", "setCoercivity",
      "setBPI1", "setBPI2", "setBPI3", "setLeadingZeros">>[k]

\* steps 3..8 end with `await this.reader.drain()`
InitDrains(k) == k >= 3

\* the command of step k, or the end of connect() after the last step
InitStep(D, k) ==
    IF k > InitSteps THEN Finish(D, "ok")
    ELSE Send([D EXCEPT !.op.step = k], InitCmd(k), "send")

\* ---- reader.drain() ----
\* the loop of drain(): a backlog packet resolves at once and is dropped;
\* otherwise a waiter whose reject does nothing is registered, with a 50 ms timer
RECURSIVE DrainLoop(_)
DrainLoop(D) ==
    IF D.incoming # << >> THEN DrainLoop([D EXCEPT !.incoming = Tail(@)])
    ELSE [D EXCEPT !.waiters = Append(@, [kind |-> "drain", timed |-> TRUE]),
                   !.op.pc = "drain"]

DrainStart(D) == DrainLoop([D EXCEPT !.incoming = << >>, !.cur = << >>])

\* the timer resolved the waiter with null: drain() returns
DrainDone(D) == InitStep(D, D.op.step + 1)

\* ---- readSuccess / readReturn ----
\* which loop the call is in: readReturn for the firmware query, else readSuccess
PollMode(D) ==
    IF D.op.name = "readReturn" \/ (D.op.name = "connect" /\ D.op.step = 1)
    THEN "return" ELSE "ack"

Matches(D, received) == IF PollMode(D) = "ack" THEN IsAck(received) ELSE IsReturn(received)

\* the loop ended: matched (return true / the value) or timed out (false / null)
PollDone(D, matched) ==
    IF D.op.name = "connect"
    THEN IF InitDrains(D.op.step) THEN DrainStart(D) ELSE InitStep(D, D.op.step + 1)
    ELSE IF D.op.name = "readReturn"
         THEN Finish(D, IF matched THEN "value" ELSE "null")
         ELSE Finish(D, IF matched THEN "true" ELSE "false")

\* `while (Date.now() - startTime < 3000)` and one iteration up to its await.
\* next(500) rejects at once on errorState or when not connected, and
\* this.reader.next throws when there is no reader; the catch swallows that
\* and the loop spins, without yielding to the event loop, until the deadline.
RECURSIVE PollHead(_)
PollHead(D) ==
    IF D.op.elapsed >= SubWaits
    THEN Send(D, "disableRead", "send_exit")
    ELSE IF ~D.hasReader \/ D.errorState # "none"
         THEN PollHead([D EXCEPT !.op.elapsed = SubWaits])
         ELSE IF D.incoming # << >>
              THEN LET received == Head(D.incoming)
                       D1 == [D EXCEPT !.incoming = Tail(@)]
                   IN  IF Matches(D1, received) THEN PollDone(D1, TRUE) ELSE PollHead(D1)
              ELSE IF ~D.connected
                   THEN PollHead([D EXCEPT !.op.elapsed = SubWaits])
                   ELSE [D EXCEPT !.waiters = Append(@, [kind |-> "next", timed |-> TRUE]),
                                  !.op.pc = "wait"]

\* `if (this.isCancelling) throw` at the start of readSuccess and readReturn
PollChecksCancel(D) == D.isCancelling

PollStart(D) ==
    IF PollChecksCancel(D) THEN Throw(D, "Aborted")
    ELSE PollHead([D EXCEPT !.op.elapsed = 0])

\* the awaited next(500) resolved with a packet
PollPacket(D, received) ==
    IF Matches(D, received) THEN PollDone(D, TRUE) ELSE PollHead(D)

\* the awaited next(500) rejected: only the abort is rethrown
PollReject(D, e) ==
    IF e = "Aborted" THEN Throw(D, e) ELSE PollHead(D)

\* ---- readData ----
ReadDataPacket(D, received) ==
    IF ReadDataParse(FALSE, received).ok THEN Finish(D, "data") ELSE Throw(D, "malformed")

\* `if (this.isCancelling) throw` at the start of readData
ReadChecksCancel(D) == D.isCancelling

\* readData up to its await on next() (no timeout)
ReadDataStart(D) ==
    IF ReadChecksCancel(D) THEN Throw(D, "Aborted")
    ELSE IF ~D.hasReader THEN Throw(D, "TypeError")
    ELSE IF D.errorState # "none" THEN Throw(D, D.errorState)
    ELSE IF D.incoming # << >>
         THEN ReadDataPacket([D EXCEPT !.incoming = Tail(@)], Head(D.incoming))
    ELSE IF ~D.connected THEN Throw(D, "disconnected")
    ELSE [D EXCEPT !.waiters = Append(@, [kind |-> "next", timed |-> FALSE]),
                   !.op.pc = "wait"]

\* ---- writeRawData ----
\* mutant: writeRawData leaves the test to the readSuccess it calls
WriteChecksCancelNever(D) == FALSE

\* `if (this.isCancelling) throw` at the start of writeRawData
WriteChecksCancel(D) == D.isCancelling

WriteRawDataStart(D) ==
    IF WriteChecksCancel(D) THEN Throw(D, "Aborted")
    ELSE Send(D, "enableWrite", "send")

\* ---- continuations ----
\* the awaited sendControl settled (ok: fulfilled, else rejected)
AfterSend(D0, ok) ==
    LET D == [D0 EXCEPT !.op.cmd = "none"]
    IN  IF D0.op.pc = "send_exit" THEN PollDone(D, FALSE)
        ELSE IF D.op.name = "sendControl" THEN Finish(D, IF ok THEN "ok" ELSE "sendError")
        ELSE IF D.op.name = "reset" THEN Finish(D, "ok")
        ELSE IF D.op.name = "connect" /\ D.op.step = 0 THEN InitStep(D, 1)
        ELSE IF ok THEN PollStart(D) ELSE Throw(D, "sendError")

\* a waiter, already taken out of the registry, was settled: out.kind is
\* "packet" (resolve), "null" (drain's timer) or "reject" with out.err
Resume(D, w, out) ==
    IF w.kind = "drain"
    THEN IF out.kind = "packet" THEN DrainLoop(D)
         ELSE IF out.kind = "null" THEN DrainDone(D)
         ELSE D
    ELSE IF D.op.name = "readData"
         THEN IF out.kind = "packet" THEN ReadDataPacket(D, out.packet)
              ELSE Throw(D, out.err)
         ELSE IF out.kind = "packet" THEN PollPacket(D, out.packet)
              ELSE PollReject(D, out.err)

Rejected(e) == [kind |-> "reject", err |-> e, packet |-> << >>]
Resolved(p) == [kind |-> "packet", err |-> "none", packet |-> p]

\* currentWaiters.forEach(w => w.reject(e)); currentWaiters = []
RECURSIVE ResumeAll(_, _, _)
ResumeAll(D, ws, e) ==
    IF ws = << >> THEN D ELSE ResumeAll(Resume(D, Head(ws), Rejected(e)), Tail(ws), e)

RejectAll(D, e) == ResumeAll([D EXCEPT !.waiters = << >>], D.waiters, e)

\* mutant: a cancel() that leaves the waiters alone
CancelWaitersNone(D) == D

\* reader.cancel(new Error('Operation aborted by user'))
CancelWaiters(D) == RejectAll(D, "Aborted")

\* ---- the menu handlers of index.js ----
\* A handler is followed from one device call to the next: c.pc names the call
\* it awaits.  inquirer prompts and spinner output change nothing of the
\* device and are left out, except the prompt between the two phases of
\* handleClone.  SIGINT ends the process and is not followed.
WriteTries == 3

BeginOn(D, name, st) ==
    [D EXCEPT !.op = [IdleOp EXCEPT !.name = name],
              !.last = [name |-> "none", result |-> "none", sent |-> FALSE],
              !.ackFresh = FALSE,
              !.stage = st]

\* reset(): clears the flag, then sends disableRead
ResetStart(D) ==
    Send([BeginOn(D, "reset", IF D.stage = 1 THEN 2 ELSE 0) EXCEPT !.isCancelling = FALSE],
         "disableRead", "send")

On(D, c, pc) == [dev |-> D, cli |-> [c EXCEPT !.pc = pc]]

\* device.sendControl(device.assemblePacket('enableRead'))
CliEnableRead(D, c, pc) ==
    On(Send(BeginOn(D, "sendControl", 0), "enableRead", "send"), c, pc)

\* device.readData()
CliReadData(D, c, pc) ==
    On(ReadDataStart(BeginOn(D, "readData", IF D.stage = 2 THEN 2 ELSE 0)), c, pc)

\* device.writeRawData(...), attempt number n of the retry loop
CliWrite(D, c, n) ==
    On(WriteRawDataStart(BeginOn(D, "writeRawData", 0)), [c EXCEPT !.tries = n], "write")

\* device.reset() at the end of a handler
CliReset(D, c) == On(ResetStart(D), c, "reset")

\* the handler returns to mainMenu
CliReturn(D) == [dev |-> D, cli |-> CliIdle]

\* `if (error.message === 'Operation aborted by user') { ...; return; }` in the
\* catch of the first phase of handleClone and handleValidate: no reset()
FirstPhaseAbort(D, c) == CliReturn(D)

\* the retry loop `for (let i = 0; i < 3; i++) if (await writeRawData(...))`,
\* then the catch and the finally of handleWrite, handleClone and handleClear
AfterWrite(D, c, res) ==
    IF res = "false" /\ c.tries < WriteTries THEN CliWrite(D, c, c.tries + 1)
    ELSE CliReset(D, c)

\* handleRead
ReadCont(D, c, res) ==
    IF c.pc = "enable"
    THEN IF res = "ok" THEN CliReadData(D, c, "readData") ELSE CliReset(D, c)
    ELSE IF c.pc = "readData" THEN CliReset(D, c)
    ELSE CliReturn(D)

\* handleWrite and handleClear
WriteCont(D, c, res) ==
    IF c.pc = "write" THEN AfterWrite(D, c, res) ELSE CliReturn(D)

\* handleClone
CloneCont(D, c, res) ==
    IF c.pc = "enable"
    THEN IF res = "ok" THEN CliReadData(D, c, "readData") ELSE CliReset(D, c)
    ELSE IF c.pc = "readData"
         THEN IF res = "data" THEN On(D, c, "prompt")
              ELSE IF res = "Aborted" THEN FirstPhaseAbort(D, c)
              ELSE CliReset(D, c)
    ELSE IF c.pc = "write" THEN AfterWrite(D, c, res)
    ELSE CliReturn(D)

\* handleValidate: the master read, then the loop until ESC or disconnection
ValidateCont(D, c, res) ==
    IF c.pc = "enable"
    THEN IF res = "ok" THEN CliReadData(D, c, "readData") ELSE CliReset(D, c)
    ELSE IF c.pc = "readData"
         THEN IF res = "data" THEN CliEnableRead(D, c, "loop_enable")
              ELSE IF res = "Aborted" THEN FirstPhaseAbort(D, c)
              ELSE CliReset(D, c)
    ELSE IF c.pc = "loop_enable"
         THEN IF res = "ok" THEN CliReadData(D, c, "loop_read") ELSE On(D, c, "loop_sleep")
    ELSE IF c.pc = "loop_read"
         THEN IF res \in {"Aborted", "disconnected"} THEN CliReset(D, c)
              ELSE On(D, c, "loop_sleep")
    ELSE CliReturn(D)

\* the handler resumes after the call it awaited ended with D.last.result
CliCont(D, c) ==
    IF c.action = "read" THEN ReadCont(D, c, D.last.result)
    ELSE IF c.action \in {"write", "clear"} THEN WriteCont(D, c, D.last.result)
    ELSE IF c.action = "clone" THEN CloneCont(D, c, D.last.result)
    ELSE ValidateCont(D, c, D.last.result)

\* the handler waits for something other than a device call
CliParked(c) == c.pc \in {"menu", "choose", "prompt", "loop_sleep"}

\* the promise continuations of the handler run in the step that ends the call
RECURSIVE CliRun(_, _)
CliRun(D, c) ==
    IF D.op # IdleOp \/ CliParked(c) THEN [dev |-> D, cli |-> c]
    ELSE LET s == CliCont(D, c) IN CliRun(s.dev, s.cli)

ApplyWith(D, c) ==
    \E d \in {D} : \E r \in {CliRun(d, c)} :
        /\ connected' = r.dev.connected
        /\ isCancelling' = r.dev.isCancelling
        /\ hasReader' = r.dev.hasReader
        /\ currentWaiters' = r.dev.waiters
        /\ incoming' = r.dev.incoming
        /\ currentData' = r.dev.cur
        /\ errorState' = r.dev.errorState
        /\ op' = r.dev.op
        /\ last' = r.dev.last
        /\ ackFresh' = r.dev.ackFresh
        /\ stage' = r.dev.stage
        /\ cli' = r.cli
        /\ UNCHANGED notDev

Apply(D) == ApplyWith(D, cli)

\* ---- the controller's calls ----
Idle == op = IdleOp

\* the menu handlers run only once connect() has set this.connected
Usable == connected \/ hasReader

Begin(name, st) == BeginOn(Dev, name, st)

\* connect(): the device is missing, cannot be opened, has no IN endpoint, or
\* the session starts with a fresh packet reader
Connect ==
    /\ Idle
    /\ ~connected
    /\ \E outcome \in {"notFound", "openError", "noEndpoint", "ok"} :
         LET D == Begin("connect", 0)
         IN  IF outcome \in {"notFound", "openError"} THEN Apply(Throw(D, outcome))
             ELSE IF outcome = "noEndpoint"
                  THEN Apply(Throw([D EXCEPT !.connected = TRUE], outcome))
                  ELSE Apply([D EXCEPT !.connected = TRUE, !.hasReader = TRUE,
                                       !.waiters = << >>, !.incoming = << >>,
                                       !.cur = << >>, !.errorState = "none",
                                       !.op.pc = "sleep"])

\* sleep(100) is over: the reset command is sent, its failure ignored
SleepDone ==
    /\ op.pc = "sleep"
    /\ Apply(Send(Dev, "reset", "send"))

CallReadData ==
    /\ Idle /\ Usable
    /\ Apply(ReadDataStart(Begin("readData", IF stage = 2 THEN 2 ELSE 0)))

CallReadSuccess ==
    /\ Idle /\ Usable
    /\ Apply(PollStart(Begin("readSuccess", 0)))

CallReadReturn ==
    /\ Idle /\ Usable
    /\ Apply(PollStart(Begin("readReturn", 0)))

CallWriteRawData ==
    /\ Idle /\ Usable
    /\ Apply(WriteRawDataStart(Begin("writeRawData", 0)))

\* reset(): clears the flag, then sends disableRead
CallReset ==
    /\ Idle /\ Usable
    /\ Apply(ResetStart(Dev))

\* handleRead: sendControl(enableRead) on its own
CallSendControl ==
    /\ Idle /\ Usable
    /\ Apply(Send(Begin("sendControl", 0), "enableRead", "send"))

\* cancel(), from the ESC key or SIGINT, at any moment
Cancel ==
    LET D0 == [Dev EXCEPT !.isCancelling = TRUE,
                          !.stage = IF op.name = "readData" /\ op.pc = "wait" THEN 1 ELSE 0]
    IN  Apply(IF hasReader THEN CancelWaiters(D0) ELSE D0)

\* ---- the control endpoint ----
InSend == op.pc \in {"send", "send_exit"}

\* the control transfers of the awaited sendControl completed
SendOk ==
    /\ InSend
    /\ Apply(AfterSend(Dev, TRUE))

\* a control transfer of the awaited sendControl failed
SendFail ==
    /\ InSend
    /\ Apply(AfterSend(Dev, FALSE))

\* ---- the IN endpoint ----
Polling == hasReader /\ errorState = "none"

\* the 'data' handler on one report
OnData(data) ==
    /\ Polling
    /\ LET r == OnDataResult(data, currentData)
           D == Dev
       IN  IF r.kind = "invalid"
           THEN IF D.waiters # << >>
                THEN Apply(Resume([D EXCEPT !.waiters = Tail(@)], Head(D.waiters),
                                  Rejected("invalidHeader")))
                ELSE Apply(D)
           ELSE IF r.kind = "continue"
                THEN Len(r.cur) <= MaxAccum * Len(ContPayload) /\ Apply([D EXCEPT !.cur = r.cur])
                ELSE LET D1 == [D EXCEPT !.cur = << >>,
                                         !.ackFresh = @ \/ (D.op.name = "writeRawData"
                                                            /\ IsAck(r.packet))]
                     IN  IF D.waiters # << >>
                         THEN Apply(Resume([D1 EXCEPT !.waiters = Tail(@)], Head(D.waiters),
                                           Resolved(r.packet)))
                         ELSE /\ Len(D.incoming) < MaxBacklog
                              /\ Apply([D1 EXCEPT !.incoming = Append(@, r.packet)])

\* the 'error' handler
OnError ==
    /\ Polling
    /\ Apply(RejectAll([Dev EXCEPT !.errorState = "usbError"], "usbError"))

\* the 'end' handler
OnEnd ==
    /\ Polling
    /\ Apply(RejectAll([Dev EXCEPT !.connected = FALSE, !.errorState = "disconnected"],
                       "disconnected"))

\* ---- time ----
\* mutant: the timer leaves its waiter in the registry
WithoutNone(ws, i) == ws

\* currentWaiters.splice(idx, 1)
Without(ws, i) == SubSeq(ws, 1, i - 1) \o SubSeq(ws, i + 1, Len(ws))

Later(D) == [D EXCEPT !.op.elapsed = Min(@ + 1, SubWaits)]

\* the timer of a waiter that is still registered fires: next(500) rejects
\* with Timeout, drain() resolves with null
TimerFire(i) ==
    /\ currentWaiters[i].timed
    /\ LET w == currentWaiters[i]
           D == [Dev EXCEPT !.waiters = Without(@, i)]
       IN  IF w.kind = "drain"
           THEN Apply(Resume(D, w, [kind |-> "null", err |-> "none", packet |-> << >>]))
           ELSE Apply(Resume(Later(D), w, Rejected("Timeout")))

\* time passes inside readSuccess / readReturn while a sub-wait is pending
TimePasses ==
    /\ op.pc = "wait"
    /\ op.name # "readData"
    /\ op.elapsed < SubWaits
    /\ Apply(Later(Dev))

Init == DevIdle /\ SendIdle /\ BsIdle /\ RdIdle /\ CdIdle /\ QIdle

Next ==
    \/ Connect
    \/ SleepDone
    \/ CallReadData
    \/ CallReadSuccess
    \/ CallReadReturn
    \/ CallWriteRawData
    \/ CallReset
    \/ CallSendControl
    \/ Cancel
    \/ SendOk
    \/ SendFail
    \/ \E data \in DevReports : OnData(data)
    \/ OnError
    \/ OnEnd
    \/ \E i \in DOMAIN currentWaiters : TimerFire(i)
    \/ TimePasses

Spec == Init /\ [][Next]_vars

(***************************************************************************)
(* index.js: mainMenu and the menu handlers drive the device, the ESC key  *)
(* calls cancel() while runWithCancellation listens.                       *)
(***************************************************************************)
CliActions == {"read", "write", "clone", "validate", "clear"}

\* runWithCancellation has its keypress listener installed
Listening(c) ==
    c.pc \in {"enable", "readData", "write", "loop_enable", "loop_read", "loop_sleep"}

\* mainMenu finds device.connected set and shows the menu
CliMenu ==
    /\ cli = CliIdle /\ Idle
    /\ connected
    /\ ApplyWith(Dev, [CliIdle EXCEPT !.pc = "choose"])

\* mainMenu finds device.connected unset and calls connect(); when that
\* raises it waits and loops
CliConnect ==
    /\ cli = CliIdle
    /\ Connect

\* the user picks an action and its handler runs up to its first await on
\* the device: encoded is false when handleWrite's encodeISO throws, or when
\* the user does not confirm handleClear
MenuChoose(a, encoded) ==
    /\ cli.pc = "choose"
    /\ LET c == [action |-> a, pc |-> "choose", tries |-> 0]
           s == IF a \in {"read", "clone", "validate"} THEN CliEnableRead(Dev, c, "enable")
                ELSE IF encoded THEN CliWrite(Dev, c, 1)
                ELSE IF a = "write" THEN CliReset(Dev, c)
                ELSE CliReturn(Dev)
       IN  ApplyWith(s.dev, s.cli)

\* handleClone: 'Press Enter when ready to WRITE...' is answered
CliPromptDone ==
    /\ cli.pc = "prompt"
    /\ LET s == CliWrite(Dev, cli, 1) IN ApplyWith(s.dev, s.cli)

\* handleValidate: the pause between two swipes is over
CliSleepDone ==
    /\ cli.pc = "loop_sleep"
    /\ LET s == CliEnableRead(Dev, cli, "loop_enable") IN ApplyWith(s.dev, s.cli)

\* ESC while runWithCancellation listens: device.cancel()
CliEsc ==
    /\ Listening(cli)
    /\ Cancel

NextCli ==
    \/ CliConnect
    \/ SleepDone
    \/ CliMenu
    \/ \E a \in CliActions : \E encoded \in BOOLEAN : MenuChoose(a, encoded)
    \/ CliPromptDone
    \/ CliSleepDone
    \/ CliEsc
    \/ SendOk
    \/ SendFail
    \/ \E data \in DevReports : OnData(data)
    \/ OnError
    \/ OnEnd
    \/ \E i \in DOMAIN currentWaiters : TimerFire(i)
    \/ TimePasses

SpecCli == Init /\ [][NextCli]_vars

(***************************************************************************)
(* createPacketReader on its own: the object it returns (next, drain,      *)
(* cancel), the endpoint's handlers and the timers, with callers that may  *)
(* call next() and drain() at any moment.  A waiter carries the index of   *)
(* the promise it settles; a promise is [kind, timeout, out, packet] with  *)
(* out = "pending" until it settles.                                       *)
(***************************************************************************)
MaxCalls == 2
MaxArrivals == 2

Rdr ==
    [waiters |-> currentWaiters, incoming |-> incoming, cur |-> currentData,
     errorState |-> errorState, connected |-> connected,
     promise |-> qPromise, arrived |-> qArrived, delivered |-> qDelivered]

RdrApply(Q) ==
    /\ currentWaiters' = Q.waiters
    /\ incoming' = Q.incoming
    /\ currentData' = Q.cur
    /\ errorState' = Q.errorState
    /\ connected' = Q.connected
    /\ qPromise' = Q.promise
    /\ qArrived' = Q.arrived
    /\ qDelivered' = Q.delivered
    /\ UNCHANGED <<hasReader, notQueue>>

\* resolve(p) of a next() promise
ResolveNext(Q, id, p) ==
    [Q EXCEPT !.promise[id].out = "packet", !.promise[id].packet = p,
              !.delivered = Append(@, p)]

\* w.reject(e): next()'s wrappedReject rejects the promise, drain()'s is `() => {}`
RejectWaiter(Q, w, e) ==
    IF w.kind = "next" THEN [Q EXCEPT !.promise[w.id].out = e] ELSE Q

RECURSIVE RejectEach(_, _, _)
RejectEach(Q, ws, e) ==
    IF ws = << >> THEN Q ELSE RejectEach(RejectWaiter(Q, Head(ws), e), Tail(ws), e)

\* currentWaiters.forEach(w => w.reject(e)); currentWaiters = []
RejectWaiters(Q, e) == RejectEach([Q EXCEPT !.waiters = << >>], Q.waiters, e)

\* mutant: the newest backlog packet is taken
BacklogTakeLast(inc) == [packet |-> inc[Len(inc)], rest |-> SubSeq(inc, 1, Len(inc) - 1)]

\* incoming.shift()
BacklogTake(inc) == [packet |-> Head(inc), rest |-> Tail(inc)]

\* mutant: every waiter of next() gets a timer
NextTimedAlways(timeout) == TRUE

\* `if (timeout > 0)` around setTimeout
NextTimed(timeout) == timeout > 0

\* mutant: next() registers its waiter without looking at the backlog
NextCallRegisters(Q, id, timeout) ==
    [Q EXCEPT !.waiters = Append(@, [kind |-> "next", timed |-> NextTimed(timeout),
                                          id |-> id])]

\* the executor of next(timeout)'s promise, the promise being number id
NextCall(Q, id, timeout) ==
    IF Q.errorState # "none" THEN [Q EXCEPT !.promise[id].out = Q.errorState]
    ELSE IF Q.incoming # << >>
         THEN LET t == BacklogTake(Q.incoming)
              IN  ResolveNext([Q EXCEPT !.incoming = t.rest], id, t.packet)
    ELSE IF ~Q.connected THEN [Q EXCEPT !.promise[id].out = "disconnected"]
    ELSE [Q EXCEPT !.waiters = Append(@, [kind |-> "next", timed |-> NextTimed(timeout),
                                          id |-> id])]

\* one turn of drain()'s loop for the drain promise id
RECURSIVE DrainTurn(_, _)
DrainTurn(Q, id) ==
    IF Q.incoming # << >> THEN DrainTurn([Q EXCEPT !.incoming = Tail(@)], id)
    ELSE [Q EXCEPT !.waiters = Append(@, [kind |-> "drain", timed |-> TRUE, id |-> id])]

NewPromise(Q, kind, timeout) ==
    [Q EXCEPT !.promise = Append(@, [kind |-> kind, timeout |-> timeout,
                                     out |-> "pending", packet |-> << >>])]

RdrTimeouts == {0, SubWaitMs}

\* the reports the endpoint may deliver next: packet number n in one report,
\* or in a start report and a final report without the start bit; at most one
\* report without the final bit is sent per packet
RdrReports(n) ==
    { Report(TRUE, TRUE, <<Marker, n>>),
      Report(TRUE, FALSE, <<Marker>>),
      Report(FALSE, TRUE, <<n>>) }

RdrNext(timeout) ==
    /\ Len(qPromise) < MaxCalls
    /\ RdrApply(NextCall(NewPromise(Rdr, "next", timeout), Len(qPromise) + 1, timeout))

\* mutant: drain() starts without discarding anything
DrainClearNone(Q) == Q

\* `incoming = []; currentData = [];` at the start of drain()
DrainClear(Q) == [Q EXCEPT !.incoming = << >>, !.cur = << >>]

RdrDrain ==
    /\ Len(qPromise) < MaxCalls
    /\ RdrApply(DrainTurn(DrainClear(NewPromise(Rdr, "drain", 0)), Len(qPromise) + 1))

\* the 'data' handler
RdrData(data) ==
    /\ errorState = "none"
    /\ LET r == OnDataResult(data, currentData)
           Q == Rdr
       IN  IF r.kind = "invalid"
           THEN IF Q.waiters # << >>
                THEN RdrApply(RejectWaiter([Q EXCEPT !.waiters = Tail(@)], Head(Q.waiters),
                                           "invalidHeader"))
                ELSE RdrApply(Q)
           ELSE IF r.kind = "continue"
                THEN currentData = << >> /\ RdrApply([Q EXCEPT !.cur = r.cur])
                ELSE /\ Len(qArrived) < MaxArrivals
                     /\ LET Q1 == [Q EXCEPT !.cur = << >>, !.arrived = Append(@, r.packet)]
                        IN  IF Q.waiters = << >>
                            THEN RdrApply([Q1 EXCEPT !.incoming = Append(@, r.packet)])
                            ELSE LET w == Head(Q.waiters)
                                     Q2 == [Q1 EXCEPT !.waiters = Tail(@)]
                                 IN  IF w.kind = "next"
                                     THEN RdrApply(ResolveNext(Q2, w.id, r.packet))
                                     ELSE RdrApply(DrainTurn(Q2, w.id))

\* a timer fires and finds its waiter registered
RdrTimer(i) ==
    /\ currentWaiters[i].timed
    /\ LET w == currentWaiters[i]
           Q == [Rdr EXCEPT !.waiters = Without(@, i)]
       IN  RdrApply([Q EXCEPT !.promise[w.id].out =
                                  IF w.kind = "next" THEN "Timeout" ELSE "done"])

\* reader.cancel(reason)
RdrCancel == RdrApply(RejectWaiters(Rdr, "Aborted"))

\* the 'error' handler
RdrError ==
    /\ errorState = "none"
    /\ RdrApply(RejectWaiters([Rdr EXCEPT !.errorState = "usbError"], "usbError"))

\* the 'end' handler
RdrEnd ==
    /\ errorState = "none"
    /\ RdrApply(RejectWaiters([Rdr EXCEPT !.connected = FALSE, !.errorState = "disconnected"],
                              "disconnected"))

\* connect() has created the reader; no controller call is modelled here
InitQueue ==
    /\ connected = TRUE /\ hasReader = TRUE
    /\ isCancelling = FALSE
    /\ currentWaiters = << >> /\ incoming = << >> /\ currentData = << >>
    /\ errorState = "none"
    /\ op = IdleOp
    /\ last = [name |-> "none", result |-> "none", sent |-> FALSE]
    /\ ackFresh = FALSE /\ stage = 0
    /\ cli = CliIdle
    /\ SendIdle /\ BsIdle /\ RdIdle /\ CdIdle /\ QIdle

NextQueue ==
    \/ \E timeout \in RdrTimeouts : RdrNext(timeout)
    \/ RdrDrain
    \/ \E data \in RdrReports(Len(qArrived) + 1) : RdrData(data)
    \/ \E i \in DOMAIN currentWaiters : RdrTimer(i)
    \/ RdrCancel
    \/ RdrError
    \/ RdrEnd

SpecQueue == InitQueue /\ [][NextQueue]_vars

\* a timer that was set and not cleared fires: the event loop runs due timers
TimersFire == \E i \in DOMAIN currentWaiters : RdrTimer(i)

SpecQueueFair == SpecQueue /\ WF_vars(TimersFire)

(***************************************************************************)
(* Claims about the packet reader.                                         *)
(***************************************************************************)
\* every waiter of ws has its promise settled with one of outs
SettledWith(ws, promise, outs) ==
    \A k \in 1..Len(ws) : promise[ws[k].id].out \in outs

NoDrain == \A k \in 1..Len(qPromise) : qPromise[k].kind = "next"

\* C15: an 'error' or 'end' event removes every registered waiter from the
\* registry and settles its promise with the disconnection error.
C15_EventSettlesWaiters ==
    [][ (RdrError \/ RdrEnd)
          => /\ currentWaiters' = << >>
             /\ SettledWith(currentWaiters, qPromise', {"usbError", "disconnected"}) ]_vars

\* C17: with next() callers only, a report without the final bit extends the
\* accumulation; a report with it completes a packet, which goes to the
\* oldest waiter if there is one and to the end of the backlog otherwise, and
\* the accumulation is reset; the packets delivered so far followed by the
\* backlog are the packets that arrived, in arrival order.
C17_DeliveryInOrder ==
    [][ /\ NoDrain' => (qDelivered' \o incoming' = qArrived')
        /\ \A data \in RdrReports(Len(qArrived) + 1) :
             LET r == OnDataResult(data, currentData)
             IN  (RdrData(data) /\ NoDrain /\ r.kind # "invalid")
                   => IF BitAnd(data[1], FinalBit) = 0
                      THEN /\ currentData' = currentData \o Tail(data)
                           /\ UNCHANGED <<incoming, currentWaiters, qPromise, qDelivered>>
                      ELSE /\ currentData' = << >>
                           /\ qArrived' = Append(qArrived, currentData \o Tail(data))
                           /\ IF currentWaiters # << >>
                              THEN /\ qPromise'[currentWaiters[1].id].out = "packet"
                                   /\ qPromise'[currentWaiters[1].id].packet
                                          = currentData \o Tail(data)
                                   /\ currentWaiters' = Tail(currentWaiters)
                                   /\ incoming' = incoming
                              ELSE /\ incoming' = Append(incoming, currentData \o Tail(data))
                                   /\ UNCHANGED <<currentWaiters, qPromise>> ]_vars

\* two packets arrived and two next() calls received them, in order
C17_Witness ==
    /\ NoDrain
    /\ Len(qPromise) >= 2 /\ qPromise[1].out = "packet" /\ qPromise[2].out = "packet"
    /\ qDelivered = <<qPromise[1].packet, qPromise[2].packet>>
    /\ qDelivered = qArrived

\* C18: a report without the start bit, arriving with no accumulation in
\* progress, is dropped (accumulation, backlog and deliveries unchanged) and
\* the oldest waiter, if any, is removed and settled with the protocol error.
C18_InvalidHeader ==
    [][ \A data \in RdrReports(Len(qArrived) + 1) :
          (RdrData(data) /\ currentData = << >> /\ BitAnd(data[1], StartBit) = 0)
            => /\ UNCHANGED <<incoming, currentData, qArrived, qDelivered>>
               /\ currentWaiters # << >>
                    => /\ currentWaiters' = Tail(currentWaiters)
                       /\ qPromise'[currentWaiters[1].id].out = "invalidHeader" ]_vars

NextBacklog(id) ==
    /\ qPromise'[id].out = "packet"
    /\ qPromise'[id].packet = incoming[1]
    /\ incoming' = Tail(incoming)
    /\ currentWaiters' = currentWaiters

NextRegisters(id, timeout) ==
    /\ qPromise'[id].out = "pending"
    /\ currentWaiters' = Append(currentWaiters,
                                [kind |-> "next", timed |-> timeout > 0, id |-> id])
    /\ incoming' = incoming

NextTimer ==
    /\ \A i \in DOMAIN currentWaiters :
         (RdrTimer(i) /\ currentWaiters[i].kind = "next")
           => /\ currentWaiters' = Without(currentWaiters, i)
              /\ qPromise[currentWaiters[i].id].timeout > 0
              /\ qPromise'[currentWaiters[i].id].out = "Timeout"
    /\ \A k \in 1..Len(qPromise') :
         (qPromise'[k].kind = "next" /\ qPromise'[k].timeout = 0)
           => qPromise'[k].out # "Timeout"

\* C19 as stated: next(timeout) returns the oldest backlog packet at once and
\* registers nothing when the backlog is non-empty, and registers a waiter
\* otherwise; a waiter with timeout > 0 is removed and gets Timeout when its
\* timer fires, a waiter with timeout 0 never gets Timeout.
C19_NextAlways ==
    [][ /\ \A timeout \in RdrTimeouts :
             RdrNext(timeout)
               => IF incoming # << >> THEN NextBacklog(Len(qPromise) + 1)
                  ELSE NextRegisters(Len(qPromise) + 1, timeout)
        /\ NextTimer ]_vars

\* C19 amended: the same while no 'error' or 'end' event has been recorded;
\* once one has, next() rejects at once with the recorded error, takes
\* nothing from the backlog and registers no waiter.
C19_NextUnlessFailed ==
    [][ /\ \A timeout \in RdrTimeouts :
             RdrNext(timeout)
               => IF errorState # "none"
                  THEN /\ qPromise'[Len(qPromise) + 1].out = errorState
                       /\ UNCHANGED <<incoming, currentWaiters>>
                  ELSE IF incoming # << >> THEN NextBacklog(Len(qPromise) + 1)
                  ELSE NextRegisters(Len(qPromise) + 1, timeout)
        /\ NextTimer ]_vars

\* one next() timed out and another one took a packet from the backlog
C19_Witness ==
    /\ Len(qPromise) >= 2
    /\ qPromise[1].out = "Timeout"
    /\ qPromise[2].out = "packet"
    /\ currentWaiters = << >>

\* C20: reader.cancel(reason) settles every registered waiter with the
\* reason and leaves the registry empty; backlog and accumulation are kept.
C20_CancelSettlesWaiters ==
    [][ RdrCancel
          => /\ currentWaiters' = << >>
             /\ SettledWith(currentWaiters, qPromise', {"Aborted"})
             /\ UNCHANGED <<incoming, currentData>> ]_vars

\* the drain() promise k is running: not returned, its waiter registered
DrainRunning(k) ==
    /\ qPromise[k].kind = "drain" /\ qPromise[k].out = "pending"
    /\ \E i \in DOMAIN currentWaiters : currentWaiters[i].id = k

C22_DrainTerminates ==
    \A k \in 1..MaxCalls :
        [](  (Len(qPromise) >= k /\ qPromise[k].kind = "drain")
           => <>(Len(qPromise) >= k /\ qPromise[k].out = "done"))

\* C26: in every reachable state of the packet reader the backlog and the
\* waiter registry are not both non-empty.
C26_BacklogOrWaiters == incoming = << >> \/ currentWaiters = << >>

\* a next() and a drain() were waiting, cancel() emptied the registry, and a
\* packet then went to the backlog
C26_Witness ==
    /\ Len(qPromise) = 2
    /\ qPromise[1].kind = "next" /\ qPromise[1].out = "Aborted"
    /\ qPromise[2].kind = "drain" /\ qPromise[2].out = "pending"
    /\ incoming # << >> /\ currentWaiters = << >>

\* the promise k has a waiter in the registry ws
Registered(k, ws) == \E i \in DOMAIN ws : ws[i].id = k

\* how a waiter of next() can be settled
NextOutcomes == {"packet", "Timeout", "Aborted", "invalidHeader", "usbError", "disconnected"}

\* C27: every waiter in the registry belongs to a promise that is still
\* pending, and to one only; a next() promise that is pending has its waiter
\* registered, the step that settles it (with a packet, Timeout, the cancel
\* reason, the protocol error or the endpoint error) is the step that removes
\* the waiter, and once settled the promise never changes: no packet, timer
\* or cancel reaches a waiter that was already settled.
C27_OnlyPendingWaiters ==
    [][ /\ \A i \in DOMAIN currentWaiters' :
             /\ qPromise'[currentWaiters'[i].id].out = "pending"
             /\ \A j \in DOMAIN currentWaiters' :
                  currentWaiters'[i].id = currentWaiters'[j].id => i = j
        /\ \A k \in 1..Len(qPromise) :
             qPromise[k].kind = "next"
               => IF qPromise[k].out = "pending"
                  THEN /\ Registered(k, currentWaiters)
                       /\ Registered(k, currentWaiters') <=> qPromise'[k].out = "pending"
                       /\ ~Registered(k, currentWaiters') <=> qPromise'[k].out \in NextOutcomes
                  ELSE qPromise'[k] = qPromise[k] ]_vars

\* a next() was cancelled while waiting; the packet that arrived later went
\* to the next() that followed, not to the cancelled waiter
C27_Witness ==
    /\ Len(qPromise) = 2
    /\ qPromise[1].kind = "next" /\ qPromise[1].out = "Aborted"
    /\ qPromise[2].kind = "next" /\ qPromise[2].out = "packet"
    /\ qDelivered = <<qPromise[2].packet>> /\ qArrived = qDelivered
    /\ currentWaiters = << >>

(***************************************************************************)
(* Claims about cancellation and the write acknowledgement.                *)
(***************************************************************************)
AbortedCall(name) == [name |-> name, result |-> "Aborted", sent |-> FALSE]

\* C4: from cancel() until reset() (the flag is set by every cancel() and
\* cleared by reset() only), every call of readData, readSuccess, readReturn
\* or writeRawData ends in that same step with Aborted, having sent no
\* control transfer and having registered no waiter.
C4_AbortedAtStart ==
    [][ /\ (Cancel => isCancelling')
        /\ ((isCancelling /\ ~isCancelling') => CallReset)
        /\ ((isCancelling /\ (CallReadData \/ CallReadSuccess \/ CallReadReturn
                                \/ CallWriteRawData))
              => /\ op' = IdleOp
                 /\ last'.result = "Aborted"
                 /\ ~last'.sent
                 /\ currentWaiters' = currentWaiters) ]_vars

\* cancel() was called, no reset() since, and a writeRawData ended with
\* Aborted before sending anything
C4_Witness == isCancelling /\ last = AbortedCall("writeRawData")

\* C5: cancel() while readData is suspended on the packet queue ends that
\* call with Aborted, with nothing sent and no waiter left; reset() leaves the
\* flag false and only cancel() sets it again; a readData that is not
\* cancelled and receives a well-formed track-data packet, from the wire or
\* from the backlog, returns its data.
C5_CancelResetRead ==
    [][ /\ ((Cancel /\ op.name = "readData" /\ op.pc = "wait")
              => /\ op' = IdleOp
                 /\ last' = AbortedCall("readData")
                 /\ currentWaiters' = << >>)
        /\ (CallReset => ~isCancelling')
        /\ ((~isCancelling /\ isCancelling') => Cancel)
        /\ \A data \in DevReports :
             LET r == OnDataResult(data, currentData)
             IN  (/\ OnData(data)
                  /\ op.name = "readData" /\ op.pc = "wait"
                  /\ r.kind = "packet" /\ Framed(FALSE, r.packet))
                   => (op' = IdleOp /\ last'.name = "readData" /\ last'.result = "data")
        /\ ((/\ CallReadData
             /\ ~isCancelling /\ hasReader /\ errorState = "none"
             /\ incoming # << >> /\ Framed(FALSE, incoming[1]))
              => (op' = IdleOp /\ last'.result = "data"))
        /\ (stage' = 3 => (~isCancelling' /\ last'.name = "readData"
                            /\ last'.result = "data")) ]_vars

\* a readData was cancelled while suspended, reset() followed, and the next
\* readData returned track data
C5_Witness == stage = 3 /\ ~isCancelling /\ last.name = "readData" /\ last.result = "data"

\* C6: cancel() while an operation is suspended on the packet queue (in
\* next() or in drain()) ends the operation in that step with Aborted.
C6_CancelRaises ==
    [][ (Cancel /\ op.pc \in {"wait", "drain"})
          => (op' = IdleOp /\ last'.result = "Aborted") ]_vars

\* C7: writeRawData returns true only if an ack packet arrived after the
\* call was made.
C7_TrueOnlyOnFreshAck ==
    (last.name = "writeRawData" /\ last.result = "true") => ackFresh

(***************************************************************************)
(* Claims about the polling loops.                                         *)
(***************************************************************************)
PollCall == op.name \in {"readSuccess", "readReturn"}

\* what the loop of the running call returns for a packet it accepts
PollValue == IF op.name = "readSuccess" THEN "true" ELSE "value"

\* the framing the running call looks for
PollWants(received) == IF op.name = "readSuccess" THEN IsAck(received) ELSE IsReturn(received)

\* C23: a packet that arrives while readSuccess / readReturn waits ends the
\* call with true / the value exactly when it has the framing the call looks
\* for and arrives before the 3 s deadline; any other packet and any sub-wait
\* timeout leaves the call running or takes it to its timeout exit; the call
\* returns false / null only after the deadline and after sending one
\* disableRead; the call raises nothing but the user's abort.
C23_BoundedPolling ==
    [][ /\ \A data \in DevReports :
             LET r == OnDataResult(data, currentData)
             IN  (OnData(data) /\ PollCall /\ op.pc = "wait" /\ r.kind = "packet")
                   => IF PollWants(r.packet) /\ op.elapsed < SubWaits
                      THEN op' = IdleOp /\ last'.result = PollValue
                      ELSE last'.result = "none"
        /\ \A i \in DOMAIN currentWaiters :
             (TimerFire(i) /\ PollCall) => last'.result = "none"
        /\ (PollCall /\ op' = IdleOp /\ last'.result \in {"false", "null"})
              => /\ op.pc = "send_exit" /\ op.cmd = "disableRead"
                 /\ op.elapsed >= SubWaits
                 /\ last'.result = (IF op.name = "readSuccess" THEN "false" ELSE "null")
        /\ (PollCall /\ op' = IdleOp)
              => last'.result \in {"true", "false", "value", "null", "Aborted"} ]_vars

(***************************************************************************)
(* Claims about the command-line interface.                                *)
(***************************************************************************)
\* C28: whenever no menu action is running (mainMenu is at the top of its
\* loop or shows the menu), the cancelling flag is false: every handler that
\* ended called reset() after the last cancel().
C28_ResetBeforeMenu == cli.action = "none" => ~isCancelling

\* C29: connected is true only for a fully set-up session: whenever it is
\* true a packet reader exists; after a connect() that raised it is false;
\* and mainMenu shows the menu only when a packet reader exists.
C29_ConnectedMeansSession ==
    /\ connected => hasReader
    /\ (last.name = "connect" /\ last.result # "ok") => ~connected
    /\ cli.pc = "choose" => hasReader

(***************************************************************************)
(* Claims about disconnection and initializeDevice.                        *)
(***************************************************************************)
\* C14: once the endpoint reported an error or its end, a call of readData,
\* readSuccess, readReturn or writeRawData (not cancelled) ends in the step
\* of the call with the disconnection error: it waits for nothing, sends
\* nothing and returns no boolean or null.
C14_FailFast ==
    [][ (/\ hasReader /\ errorState # "none" /\ ~isCancelling
         /\ (CallReadData \/ CallReadSuccess \/ CallReadReturn \/ CallWriteRawData))
          => (op' = IdleOp /\ last'.result \in {"disconnected", "usbError"}) ]_vars

\* C16: in initializeDevice the command of step k+1 is sent only when the
\* drain of step k ends: every step, once its command is sent, waits for its
\* answer and then drains before the next command.
C16_DrainBeforeNextStep ==
    [][ (/\ op.name = "connect" /\ op'.name = "connect"
         /\ op.step >= 1 /\ op'.step = op.step + 1)
          => op.pc = "drain" ]_vars

====
